---- MODULE Spec2Model ----
(***************************************************************************)
(* Model of the argument resolution, validation and kernel dispatch of the *)
(* linalg package: lapack.Gesv (src/lapack/gesv.go) and the level 3 BLAS   *)
(* wrappers Gemm, Symm, Hemm, Syrk, Herk, Syr2k, Her2k, Trmm and Trsm      *)
(* (src/blas/level3.go).                                                   *)
(*                                                                         *)
(* One call is modelled at a time.  A call action takes the machine from   *)
(* "idle" to "kernel" (the wrapper has handed its arguments to the         *)
(* external compute kernel) or straight to "done" (the wrapper returned    *)
(* without a kernel call).  The kernel actions model the external kernel   *)
(* returning, followed by the wrapper's own return statement.              *)
(***************************************************************************)
EXTENDS Integers, Sequences, FiniteSets, TLC

\* Largest row or column count of an operand, and largest explicit dimension.
MaxDim == 2

\* Largest number of options in the option list of a Gesv call.
MaxOpts == 1

VARIABLES
    pc,      \* "idle", "kernel" (inside the external kernel), "done"
    fn,      \* entry point of the current call
    A, B, C, \* matrix operands as the caller passed them
    alpha,   \* scalar arguments (BLAS)
    beta,
    ipiv,    \* permutation buffer argument (Gesv)
    opts,    \* index options as returned by linalg.GetIndexOpts
    params,  \* mode flags as returned by linalg.GetParameters
    ind,     \* the call's resolved index options when it left the wrapper
    kcall,   \* the kernel invocation of the call, NoCall if none
    info,    \* status returned by the LAPACK kernel
    err,     \* the call's outcome: "nil", an error message, a panic, or "pending"
    mem      \* storage written by the kernel: buffer name -> BOOLEAN

vars == <<pc, fn, A, B, C, alpha, beta, ipiv, opts, params, ind, kcall, info, err, mem>>

----------------------------------------------------------------------------
(* The matrix package: operands and scalars.                               *)

Types == {"real", "complex"}

\* A dense operand: rows, cols, leading index (step between columns) and
\* numeric domain.  pad > 0 is a view into a taller parent matrix.
Operand(rows, cols, pad, typ) ==
    [rows |-> rows, cols |-> cols, ld |-> rows + pad, typ |-> typ]

NoOperand == [rows |-> 0, cols |-> 0, ld |-> 0, typ |-> "none"]

Rows(X) == X.rows

Cols(X) == X.cols

LeadingIndex(X) == X.ld

NumElements(X) == X.rows * X.cols

\* Length of the flat array FloatArray()/ComplexArray() hands out: the
\* elements from the operand's first element to its last.
ArrayLen(X) == IF X.rows = 0 \/ X.cols = 0 THEN 0 ELSE (X.cols - 1) * X.ld + X.rows

\* X[off:] of the operand's array is in range.
SliceOk(X, off) == 0 <= off /\ off <= ArrayLen(X)

\* The Go runtime's panics.
PanicSlice == "panic: runtime error: slice bounds out of range"

PanicNil == "panic: runtime error: invalid memory address or nil pointer dereference"

Panics == {PanicSlice, PanicNil}

\* A comparison that lets operands of different types through.
EqualTypesAny(X, Y) == TRUE

EqualTypes2(X, Y) == X.typ = Y.typ

EqualTypes3(X, Y, Z) == X.typ = Y.typ /\ Y.typ = Z.typ

max(a, b) == IF a > b THEN a ELSE b

\* float64 and complex128 values: nan marks a NaN.
Float(v) == [nan |-> FALSE, re |-> v, im |-> 0]

Complex(re, im) == [nan |-> FALSE, re |-> re, im |-> im]

NaN == [nan |-> TRUE, re |-> 0, im |-> 0]

IsNaN(x) == x.nan

\* complex(f, 0.0) for a float64 f
complex(f) == IF f.nan THEN NaN ELSE Complex(f.re, 0)

\* A scalar argument: nil, or a singleton real or complex matrix.
NilScalar == [kind |-> "nil", val |-> NaN]

RealScalar(x) == [kind |-> "real", val |-> x]

ComplexScalar(x) == [kind |-> "complex", val |-> x]

\* FloatValue() of a singleton: its element for a real matrix, NaN for a
\* complex one.
FloatValue(s) == IF s.kind = "real" THEN s.val ELSE NaN

\* ComplexValue() of a singleton: its element for a complex matrix, NaN for
\* a real one.
ComplexValue(s) == IF s.kind = "complex" THEN s.val ELSE NaN

----------------------------------------------------------------------------
(* Options.                                                                *)

\* linalg.GetIndexOpts with no option given: dimensions unset (negative),
\* strides and offsets zero.
DefaultIndexOpts ==
    [M |-> -1, N |-> -1, K |-> -1, Nrhs |-> -1,
     LDa |-> 0, LDb |-> 0, LDc |-> 0,
     OffsetA |-> 0, OffsetB |-> 0, OffsetC |-> 0]

DefaultParams == [TransA |-> "N", TransB |-> "N", Trans |-> "N", Side |-> "L"]

NoIpiv == [nil |-> TRUE, len |-> 0]

Ipiv(n) == [nil |-> FALSE, len |-> n]

NoCall ==
    [name |-> "none", M |-> 0, N |-> 0, K |-> 0, Nrhs |-> 0,
     LDa |-> 0, LDb |-> 0, LDc |-> 0,
     alpha |-> NaN, beta |-> NaN,
     a |-> "none", alen |-> 0, b |-> "none", c |-> "none",
     ipiv |-> "none", ipivlen |-> 0, out |-> "none"]

Buffers == {"A", "B", "C", "ipiv", "Acopy", "ipivPriv"}

CallerBuffers == {"A", "B", "C", "ipiv"}

----------------------------------------------------------------------------
(* lapack.Gesv, src/lapack/gesv.go.                                        *)

\* A stride check that is off by one.
LdTooSmallByTwo(ld, n) == ld + 1 < max(1, n)

\* A stride below max(1, n)                              (gesv.go:63, 70)
LdTooSmall(ld, n) == ld < max(1, n)

\* An offset check that lets -1 through.
OffsetBelowMinusOne(off) == off < -1

\* A negative offset                                     (gesv.go:73, 76)
OffsetBad(off) == off < 0

\* Fewer elements than offset + (cnt-1)*rows + n         (gesv.go:80, 84)
SizeTooSmall(size, off, cnt, rows, n) == size < off + (cnt - 1) * rows + n

\* The size checks in the other order: B first, then A.
GesvSizesBFirst(a, b, i, arows, brows) ==
    IF SizeTooSmall(NumElements(b), i.OffsetB, i.Nrhs, brows, i.N) THEN "Gesv: sizeB"
    ELSE IF SizeTooSmall(NumElements(a), i.OffsetA, i.N, arows, i.N) THEN "Gesv: sizeA"
    ELSE "nil"

\* The size checks: A first, then B                      (gesv.go:79-86)
GesvSizes(a, b, i, arows, brows) ==
    IF SizeTooSmall(NumElements(a), i.OffsetA, i.N, arows, i.N) THEN "Gesv: sizeA"
    ELSE IF SizeTooSmall(NumElements(b), i.OffsetB, i.Nrhs, brows, i.N) THEN "Gesv: sizeB"
    ELSE "nil"

\* A length check that lets a buffer one short through.
IpivTooShortByTwo(pv, n) == ~pv.nil /\ pv.len + 1 < n

\* A supplied permutation buffer shorter than n          (gesv.go:87)
IpivTooShort(pv, n) == ~pv.nil /\ pv.len < n

\* The kernel storage without the private copy of A.
GesvInPlace(pv) ==
    IF pv.nil THEN [a |-> "A", ipiv |-> "ipivPriv"]
              ELSE [a |-> "A", ipiv |-> "ipiv"]

\* The storage handed to the kernel for A and for the pivots: with no ipiv
\* the wrapper allocates the pivots and works on A.MakeCopy().
GesvPrivate(pv) ==
    IF pv.nil THEN [a |-> "Acopy", ipiv |-> "ipivPriv"]
              ELSE [a |-> "A", ipiv |-> "ipiv"]

\* An error message that leaves the status out.
LapackErrorNoStatus(i) == "Gesv: lapack error"

\* onError(fmt.Sprintf("Gesv: lapack error: %d", info))
LapackError(i) == "Gesv: lapack error: " \o ToString(i)

GesvReturn(i, e, k, st) == [ind |-> i, err |-> e, kcall |-> k, info |-> st]

\* The type switch: slice the arrays and call dgesv or zgesv.
GesvDispatch(a, b, pv, i) ==
    LET priv == GesvPrivate(pv)
        n    == IF pv.nil THEN i.N ELSE pv.len
        call(name) ==
            \* Aa[ind.OffsetA:], Aa[:ind.LDa*ind.LDb], Ba[ind.OffsetB:]
            IF \/ ~SliceOk(a, i.OffsetA)
               \/ i.LDa * i.LDb > ArrayLen(a) - i.OffsetA
               \/ ~SliceOk(b, i.OffsetB)
            THEN GesvReturn(i, PanicSlice, NoCall, -1)
            ELSE GesvReturn(i, "pending",
                     [NoCall EXCEPT !.name = name, !.N = i.N, !.Nrhs = i.Nrhs,
                                    !.LDa = i.LDa, !.LDb = i.LDb,
                                    !.a = priv.a, !.alen = i.LDa * i.LDb,
                                    !.ipiv = priv.ipiv, !.ipivlen = n,
                                    !.b = "B", !.out = "B"], -1)
    IN  CASE a.typ = "real"    -> call("dgesv")
          [] a.typ = "complex" -> call("zgesv")
          [] OTHER             -> GesvReturn(i, LapackError(-1), NoCall, -1)

\* func Gesv(A, B matrix.Matrix, ipiv []int32, opts ...linalg.Option) error,
\* up to the kernel call.
Gesv(a, b, pv, o) ==
    LET i1 == IF o.N < 0 THEN [o EXCEPT !.N = Rows(a)] ELSE o
    IN
    IF o.N < 0 /\ i1.N # Cols(a)
    THEN GesvReturn(i1, "Gesv: A not square", NoCall, -1)
    ELSE
    LET i2 == IF i1.Nrhs < 0 THEN [i1 EXCEPT !.Nrhs = Cols(b)] ELSE i1
    IN
    IF i2.N = 0 \/ i2.Nrhs = 0
    THEN GesvReturn(i2, "nil", NoCall, -1)
    ELSE
    LET i3    == IF i2.LDa = 0 THEN [i2 EXCEPT !.LDa = max(1, LeadingIndex(a))] ELSE i2
        arows == IF i2.LDa = 0 THEN max(1, Rows(a)) ELSE o.LDa
    IN
    IF LdTooSmall(i3.LDa, i3.N)
    THEN GesvReturn(i3, "Gesv: ldA", NoCall, -1)
    ELSE
    LET i4    == IF i3.LDb = 0 THEN [i3 EXCEPT !.LDb = max(1, LeadingIndex(b))] ELSE i3
        brows == IF i3.LDb = 0 THEN max(1, Rows(b)) ELSE o.LDb
    IN
    IF LdTooSmall(i4.LDb, i4.N)
    THEN GesvReturn(i4, "Gesv: ldB", NoCall, -1)
    ELSE IF OffsetBad(i4.OffsetA)
    THEN GesvReturn(i4, "Gesv: offsetA", NoCall, -1)
    ELSE IF OffsetBad(i4.OffsetB)
    THEN GesvReturn(i4, "Gesv: offsetB", NoCall, -1)
    ELSE IF GesvSizes(a, b, i4, arows, brows) # "nil"
    THEN GesvReturn(i4, GesvSizes(a, b, i4, arows, brows), NoCall, -1)
    ELSE IF IpivTooShort(pv, i4.N)
    THEN GesvReturn(i4, "Gesv: size ipiv", NoCall, -1)
    ELSE IF ~EqualTypes2(a, b)
    THEN GesvReturn(i4, "Gesv: arguments not of same type", NoCall, -1)
    ELSE GesvDispatch(a, b, pv, i4)

----------------------------------------------------------------------------
(* check_level3_func: the resolver and validator shared by the level 3     *)
(* wrappers.  Its source is not part of the files at hand; it is modelled  *)
(* from the specification (sections 4.2 and 4.3) and from the option       *)
(* descriptions in the doc comments of level3.go.                          *)

IsTrans(t) == t # "N"

\* Default dimensions per family.
L3Dims(i, f, a, b, p) ==
    LET dM == CASE f = "fgemm" -> IF IsTrans(p.TransA) THEN Cols(a) ELSE Rows(a)
                [] f = "fsymm" -> Rows(b)
                [] f \in {"ftrmm", "ftrsm"} -> IF p.Side = "L" THEN Rows(a) ELSE Rows(b)
                [] OTHER -> i.M
        dN == CASE f = "fgemm" -> IF IsTrans(p.TransB) THEN Rows(b) ELSE Cols(b)
                [] f = "fsymm" -> Cols(b)
                [] f \in {"ftrmm", "ftrsm"} -> IF p.Side = "L" THEN Cols(b) ELSE Rows(a)
                [] OTHER -> IF IsTrans(p.Trans) THEN Cols(a) ELSE Rows(a)
        dK == CASE f = "fgemm" -> IF IsTrans(p.TransA) THEN Rows(a) ELSE Cols(a)
                [] f \in {"fsyrk", "fsyr2k"} -> IF IsTrans(p.Trans) THEN Rows(a) ELSE Cols(a)
                [] OTHER -> i.K
    IN  [i EXCEPT !.M = IF i.M < 0 /\ f \in {"fgemm", "fsymm", "ftrmm", "ftrsm"} THEN dM ELSE i.M,
                  !.N = IF i.N < 0 THEN dN ELSE i.N,
                  !.K = IF i.K < 0 /\ f \in {"fgemm", "fsyrk", "fsyr2k"} THEN dK ELSE i.K]

\* A defaulted dimension of the side-parameterized families must reconcile
\* with the square operand A.
L3ShapeError(i, r, f, a, p) ==
    /\ f \in {"fsymm", "ftrmm", "ftrsm"}
    /\ \/ p.Side = "L" /\ i.M < 0 /\ (r.M # Rows(a) \/ r.M # Cols(a))
       \/ p.Side # "L" /\ i.N < 0 /\ (r.N # Rows(a) \/ r.N # Cols(a))

\* The call is empty: nothing to validate, nothing to compute.
L3Empty(r, f) ==
    IF f \in {"fsyrk", "fsyr2k"} THEN r.N = 0 ELSE r.M = 0 \/ r.N = 0

\* <<first dimension, last dimension>> of each operand as stored.
L3LayoutA(r, f, p) ==
    CASE f = "fgemm" -> IF IsTrans(p.TransA) THEN <<r.K, r.M>> ELSE <<r.M, r.K>>
      [] f \in {"fsyrk", "fsyr2k"} -> IF IsTrans(p.Trans) THEN <<r.K, r.N>> ELSE <<r.N, r.K>>
      [] OTHER -> IF p.Side = "L" THEN <<r.M, r.M>> ELSE <<r.N, r.N>>

L3LayoutB(r, f, p) ==
    CASE f = "fgemm" -> IF IsTrans(p.TransB) THEN <<r.N, r.K>> ELSE <<r.K, r.N>>
      [] f = "fsyr2k" -> IF IsTrans(p.Trans) THEN <<r.K, r.N>> ELSE <<r.N, r.K>>
      [] OTHER -> <<r.M, r.N>>

L3LayoutC(r, f) ==
    IF f \in {"fsyrk", "fsyr2k"} THEN <<r.N, r.N>> ELSE <<r.M, r.N>>

L3UsesB(f) == f # "fsyrk"

L3UsesC(f) == f \notin {"ftrmm", "ftrsm"}

\* Required storage: offset + (last_dim - 1) * stride + first_dim.
L3Required(off, ld, lay) == off + (lay[2] - 1) * ld + lay[1]

\* Strides left at zero take max(1, leading index) of their operand.
L3Strides(r0, f, a, b, c) ==
    [r0 EXCEPT
       !.LDa = IF r0.LDa = 0 THEN max(1, LeadingIndex(a)) ELSE r0.LDa,
       !.LDb = IF r0.LDb = 0 /\ L3UsesB(f) THEN max(1, LeadingIndex(b)) ELSE r0.LDb,
       !.LDc = IF r0.LDc = 0 /\ L3UsesC(f) THEN max(1, LeadingIndex(c)) ELSE r0.LDc]

\* The bounds validator: strides, then offsets, then sizes.
L3Bounds(r, f, a, b, c, p) ==
    IF r.LDa < max(1, L3LayoutA(r, f, p)[1]) THEN [err |-> "inconsistent ldA", ind |-> r]
    ELSE IF L3UsesB(f) /\ r.LDb < max(1, L3LayoutB(r, f, p)[1])
         THEN [err |-> "inconsistent ldB", ind |-> r]
    ELSE IF L3UsesC(f) /\ r.LDc < max(1, L3LayoutC(r, f)[1])
         THEN [err |-> "inconsistent ldC", ind |-> r]
    ELSE IF r.OffsetA < 0 THEN [err |-> "offsetA illegal", ind |-> r]
    ELSE IF L3UsesB(f) /\ r.OffsetB < 0 THEN [err |-> "offsetB illegal", ind |-> r]
    ELSE IF L3UsesC(f) /\ r.OffsetC < 0 THEN [err |-> "offsetC illegal", ind |-> r]
    ELSE IF NumElements(a) < L3Required(r.OffsetA, r.LDa, L3LayoutA(r, f, p))
         THEN [err |-> "sizeA", ind |-> r]
    ELSE IF L3UsesB(f) /\ NumElements(b) < L3Required(r.OffsetB, r.LDb, L3LayoutB(r, f, p))
         THEN [err |-> "sizeB", ind |-> r]
    ELSE IF L3UsesC(f) /\ NumElements(c) < L3Required(r.OffsetC, r.LDc, L3LayoutC(r, f))
         THEN [err |-> "sizeC", ind |-> r]
    ELSE [err |-> "nil", ind |-> r]

\* After the dimensions r0 are resolved from the options i.
L3Resolved(i, r0, f, a, b, c, p) ==
    IF L3ShapeError(i, r0, f, a, p) THEN [err |-> "dimensions do not match", ind |-> r0]
    ELSE IF L3Empty(r0, f) THEN [err |-> "nil", ind |-> r0]
    ELSE L3Bounds(L3Strides(r0, f, a, b, c), f, a, b, c, p)

check_level3_func(i, f, a, b, c, p) ==
    L3Resolved(i, L3Dims(i, f, a, b, p), f, a, b, c, p)

----------------------------------------------------------------------------
(* The level 3 BLAS wrappers, src/blas/level3.go.                          *)

BlasReturn(i, e, k) == [ind |-> i, err |-> e, kcall |-> k, info |-> 0]

\* The kernel call statement: the slices Aa[ind.OffsetA:], Ba[ind.OffsetB:],
\* Ca[ind.OffsetC:] are taken, then the kernel is entered.
BlasCall(name, i, aval, bval, a, b, c, out) ==
    IF \/ ~SliceOk(a, i.OffsetA)
       \/ b # NoOperand /\ ~SliceOk(b, i.OffsetB)
       \/ c # NoOperand /\ ~SliceOk(c, i.OffsetC)
    THEN BlasReturn(i, PanicSlice, NoCall)
    ELSE BlasReturn(i, "pending",
             [NoCall EXCEPT !.name = name, !.M = i.M, !.N = i.N, !.K = i.K,
                            !.LDa = i.LDa, !.LDb = i.LDb, !.LDc = i.LDc,
                            !.alpha = aval, !.beta = bval,
                            !.a = "A",
                            !.b = IF b = NoOperand THEN "none" ELSE "B",
                            !.c = IF c = NoOperand THEN "none" ELSE "C",
                            !.out = out])

\* aval := 1.0; if alpha != nil { aval = alpha.FloatValue() }
FloatAlpha(al) == IF al.kind = "nil" THEN Float(1) ELSE FloatValue(al)

\* bval := 0.0; if beta != nil { bval = beta.FloatValue() }
FloatBeta(be) == IF be.kind = "nil" THEN Float(0) ELSE FloatValue(be)

\* The complex-path scalar block of Gemm, Symm, Syrk, Herk, Her2k, Trmm, Trsm:
\*   v = s.ComplexValue()
\*   if cmplx.IsNaN(v) { v = complex(s.FloatValue(), 0.0) } else { return error }
\* err is "nil" when the block falls through.
ComplexCoerce(s, dflt, msg) ==
    IF s.kind = "nil" THEN [err |-> "nil", val |-> dflt]
    ELSE IF IsNaN(ComplexValue(s))
         THEN [err |-> "nil", val |-> complex(FloatValue(s))]
         ELSE [err |-> msg, val |-> ComplexValue(s)]

\* The complex-path scalar block of Syr2k:
\*   v = s.ComplexValue()
\*   if cmplx.IsNaN(v) {
\*       if !math.IsNaN(s.FloatValue()) { v = complex(s.FloatValue(), 0.0) }
\*       else { return error } }
Syr2kCoerce(s, dflt, msg) ==
    IF s.kind = "nil" THEN [err |-> "nil", val |-> dflt]
    ELSE IF IsNaN(ComplexValue(s))
         THEN IF ~IsNaN(FloatValue(s))
              THEN [err |-> "nil", val |-> complex(FloatValue(s))]
              ELSE [err |-> msg, val |-> ComplexValue(s)]
         ELSE [err |-> "nil", val |-> ComplexValue(s)]

\* The complex-path beta block of Herk and Her2k: beta is a float64.
\*   bval := 0.0; if beta != nil { bval = beta.FloatValue(); NaN -> error }
RealBetaCoerce(be) ==
    IF be.kind = "nil" THEN [err |-> "nil", val |-> Float(0)]
    ELSE IF IsNaN(FloatValue(be))
         THEN [err |-> "beta not a real number", val |-> FloatValue(be)]
         ELSE [err |-> "nil", val |-> FloatValue(be)]

\* A real path that tests the scalars only after the kernel call statement.
RealPathLate(name, i, a, b, c, al, be) ==
    IF IsNaN(FloatAlpha(al)) \/ IsNaN(FloatBeta(be))
    THEN BlasReturn(i, "alpha or beta not a number",
                    BlasCall(name, i, FloatAlpha(al), FloatBeta(be), a, b, c, "C").kcall)
    ELSE BlasCall(name, i, FloatAlpha(al), FloatBeta(be), a, b, c, "C")

\* The real path shared by the families with alpha and beta.
RealPath(name, i, a, b, c, al, be) ==
    IF IsNaN(FloatAlpha(al)) \/ IsNaN(FloatBeta(be))
    THEN BlasReturn(i, "alpha or beta not a number", NoCall)
    ELSE BlasCall(name, i, FloatAlpha(al), FloatBeta(be), a, b, c, "C")

\* The complex path of a family whose alpha and beta blocks are given.
ComplexPath(name, i, a, b, c, ca, cb) ==
    IF ca.err # "nil" THEN BlasReturn(i, ca.err, NoCall)
    ELSE IF cb.err # "nil" THEN BlasReturn(i, cb.err, NoCall)
    ELSE BlasCall(name, i, ca.val, cb.val, a, b, c, "C")

\* The complex path of Gemm.  Its beta block assigns the coerced beta to
\* aval (level3.go:121) and leaves bval at beta.ComplexValue().
GemmComplexPath(i, a, b, c, al, be) ==
    LET ca == ComplexCoerce(al, Complex(1, 0), "alpha not a number")
        cb == ComplexCoerce(be, Complex(0, 0), "beta not a number")
    IN  IF ca.err # "nil" THEN BlasReturn(i, ca.err, NoCall)
        ELSE IF cb.err # "nil" THEN BlasReturn(i, cb.err, NoCall)
        ELSE IF be.kind = "nil"
             THEN BlasCall("zgemm", i, ca.val, cb.val, a, b, c, "C")
             ELSE BlasCall("zgemm", i, cb.val, ComplexValue(be), a, b, c, "C")

GemmChecked(chk, a, b, c, al, be) ==
    IF chk.err # "nil" THEN BlasReturn(chk.ind, chk.err, NoCall)
    ELSE IF chk.ind.M = 0 \/ chk.ind.N = 0 THEN BlasReturn(chk.ind, "nil", NoCall)
    ELSE IF ~EqualTypes3(a, b, c) THEN BlasReturn(chk.ind, "Parameters not of same type", NoCall)
    ELSE CASE a.typ = "real"    -> RealPath("dgemm", chk.ind, a, b, c, al, be)
           [] a.typ = "complex" -> GemmComplexPath(chk.ind, a, b, c, al, be)
           [] OTHER -> BlasReturn(chk.ind, "Unknown type, not implemented", NoCall)

Gemm(a, b, c, al, be, o, p) ==
    GemmChecked(check_level3_func(o, "fgemm", a, b, c, p), a, b, c, al, be)

SymmChecked(chk, a, b, c, al, be) ==
    IF chk.err # "nil" THEN BlasReturn(chk.ind, chk.err, NoCall)
    ELSE IF chk.ind.M = 0 \/ chk.ind.N = 0 THEN BlasReturn(chk.ind, "nil", NoCall)
    ELSE IF ~EqualTypes3(a, b, c) THEN BlasReturn(chk.ind, "Parameters not of same type", NoCall)
    ELSE CASE a.typ = "real"    -> RealPath("dsymm", chk.ind, a, b, c, al, be)
           [] a.typ = "complex" ->
                ComplexPath("zhemm", chk.ind, a, b, c,
                    ComplexCoerce(al, Complex(1, 0), "alpha not a number"),
                    ComplexCoerce(be, Complex(0, 0), "beta not a number"))
           [] OTHER -> BlasReturn(chk.ind, "Unknown type, not implemented", NoCall)

Symm(a, b, c, al, be, o, p) ==
    SymmChecked(check_level3_func(o, "fsymm", a, b, c, p), a, b, c, al, be)

Hemm(a, b, c, al, be, o, p) == Symm(a, b, c, al, be, o, p)

SyrkChecked(chk, a, c, al, be) ==
    IF chk.err # "nil" THEN BlasReturn(chk.ind, chk.err, NoCall)
    ELSE IF ~EqualTypes2(a, c) THEN BlasReturn(chk.ind, "Parameters not of same type", NoCall)
    ELSE CASE a.typ = "real"    -> RealPath("dsyrk", chk.ind, a, NoOperand, c, al, be)
           [] a.typ = "complex" ->
                ComplexPath("zsyrk", chk.ind, a, NoOperand, c,
                    ComplexCoerce(al, Complex(1, 0), "alpha not a number"),
                    ComplexCoerce(be, Complex(0, 0), "beta not a number"))
           [] OTHER -> BlasReturn(chk.ind, "Unknown type, not implemented", NoCall)

Syrk(a, c, al, be, o, p) ==
    SyrkChecked(check_level3_func(o, "fsyrk", a, NoOperand, c, p), a, c, al, be)

HerkChecked(chk, a, c, al, be) ==
    IF chk.err # "nil" THEN BlasReturn(chk.ind, chk.err, NoCall)
    ELSE IF ~EqualTypes2(a, c) THEN BlasReturn(chk.ind, "Parameters not of same type", NoCall)
    ELSE CASE a.typ = "real"    -> RealPath("dsyrk", chk.ind, a, NoOperand, c, al, be)
           [] a.typ = "complex" ->
                ComplexPath("zherk", chk.ind, a, NoOperand, c,
                    ComplexCoerce(al, Complex(1, 0), "alpha not a real or complex number"),
                    RealBetaCoerce(be))
           [] OTHER -> BlasReturn(chk.ind, "Unknown type, not implemented", NoCall)

Herk(a, c, al, be, o, p) ==
    HerkChecked(check_level3_func(o, "fsyrk", a, NoOperand, c, p), a, c, al, be)

Syr2kChecked(chk, a, b, c, al, be) ==
    IF chk.err # "nil" THEN BlasReturn(chk.ind, chk.err, NoCall)
    ELSE IF ~EqualTypes3(a, b, c) THEN BlasReturn(chk.ind, "Parameters not of same type", NoCall)
    ELSE CASE a.typ = "real"    -> RealPath("dsyr2k", chk.ind, a, b, c, al, be)
           [] a.typ = "complex" ->
                ComplexPath("zsyr2k", chk.ind, a, b, c,
                    Syr2kCoerce(al, Complex(1, 0), "alpha not a real or complex number"),
                    Syr2kCoerce(be, Complex(0, 0), "beta not a real or complex number"))
           [] OTHER -> BlasReturn(chk.ind, "Unknown type, not implemented", NoCall)

Syr2k(a, b, c, al, be, o, p) ==
    Syr2kChecked(check_level3_func(o, "fsyr2k", a, b, c, p), a, b, c, al, be)

Her2kChecked(chk, a, b, c, al, be) ==
    IF chk.err # "nil" THEN BlasReturn(chk.ind, chk.err, NoCall)
    ELSE IF ~EqualTypes3(a, b, c) THEN BlasReturn(chk.ind, "Parameters not of same type", NoCall)
    ELSE CASE a.typ = "real"    -> RealPath("dsyr2k", chk.ind, a, b, c, al, be)
           [] a.typ = "complex" ->
                ComplexPath("zher2k", chk.ind, a, b, c,
                    ComplexCoerce(al, Complex(1, 0), "alpha not a number"),
                    RealBetaCoerce(be))
           [] OTHER -> BlasReturn(chk.ind, "Unknown type, not implemented", NoCall)

Her2k(a, b, c, al, be, o, p) ==
    Her2kChecked(check_level3_func(o, "fsyr2k", a, b, c, p), a, b, c, al, be)

TrmmChecked(chk, a, b, al) ==
    LET ca  == ComplexCoerce(al, Complex(1, 0), "alpha  not a number")
    IN  IF chk.err # "nil" THEN BlasReturn(chk.ind, chk.err, NoCall)
        ELSE IF ~EqualTypes2(a, b) THEN BlasReturn(chk.ind, "Parameters not of same type", NoCall)
        ELSE CASE a.typ = "real" ->
                    IF IsNaN(FloatAlpha(al))
                    THEN BlasReturn(chk.ind, "alpha  not a number", NoCall)
                    ELSE BlasCall("dtrmm", chk.ind, FloatAlpha(al), NaN, a, b, NoOperand, "B")
               [] a.typ = "complex" ->
                    IF ca.err # "nil" THEN BlasReturn(chk.ind, ca.err, NoCall)
                    ELSE BlasCall("ztrmm", chk.ind, ca.val, NaN, a, b, NoOperand, "B")
               [] OTHER -> BlasReturn(chk.ind, "Unknown type, not implemented", NoCall)

Trmm(a, b, al, o, p) ==
    TrmmChecked(check_level3_func(o, "ftrmm", a, b, NoOperand, p), a, b, al)

\* The real path of Trsm reads alpha.FloatValue() without a nil test
\* (level3.go:841): a nil alpha is a nil dereference.
TrsmChecked(chk, a, b, al) ==
    LET ca  == ComplexCoerce(al, Complex(1, 0), "alpha  not a number")
    IN  IF chk.err # "nil" THEN BlasReturn(chk.ind, chk.err, NoCall)
        ELSE IF ~EqualTypes2(a, b) THEN BlasReturn(chk.ind, "Parameters not of same type", NoCall)
        ELSE CASE a.typ = "real" ->
                    IF al.kind = "nil" THEN BlasReturn(chk.ind, PanicNil, NoCall)
                    ELSE IF IsNaN(FloatValue(al))
                    THEN BlasReturn(chk.ind, "alpha or beta not a number", NoCall)
                    ELSE BlasCall("dtrsm", chk.ind, FloatValue(al), NaN, a, b, NoOperand, "B")
               [] a.typ = "complex" ->
                    IF ca.err # "nil" THEN BlasReturn(chk.ind, ca.err, NoCall)
                    ELSE BlasCall("ztrsm", chk.ind, ca.val, NaN, a, b, NoOperand, "B")
               [] OTHER -> BlasReturn(chk.ind, "Unknown type, not implemented", NoCall)

Trsm(a, b, al, o, p) ==
    TrsmChecked(check_level3_func(o, "ftrsm", a, b, NoOperand, p), a, b, al)

----------------------------------------------------------------------------
(* Inputs.                                                                 *)

\* Operands of Gesv: every shape up to MaxDim, and every non-empty shape
\* also as a view whose leading index exceeds its row count.
Operands ==
    {Operand(r, c, 0, t) : r \in 0..MaxDim, c \in 0..MaxDim, t \in Types}
    \cup {Operand(r, c, 1, t) : r \in 1..MaxDim, c \in 1..MaxDim, t \in Types}

IpivArgs == {NoIpiv} \cup {Ipiv(n) : n \in 0..MaxDim}

\* The options a caller of Gesv can set, with the values tried for each.
GesvOptions ==
    {<<"N", v>> : v \in 0..MaxDim} \cup {<<"Nrhs", v>> : v \in 0..MaxDim}
    \cup {<<"LDa", v>> : v \in {-1} \cup 1..(MaxDim + 1)}
    \cup {<<"LDb", v>> : v \in {-1} \cup 1..(MaxDim + 1)}
    \cup {<<"OffsetA", v>> : v \in {-1, 1}} \cup {<<"OffsetB", v>> : v \in {-1, 1}}

\* linalg.GetIndexOpts(opts...): the defaults overridden by each option of
\* the list; here for every list of at most k options.
RECURSIVE GetIndexOpts(_)
GetIndexOpts(k) ==
    IF k = 0 THEN {DefaultIndexOpts}
    ELSE GetIndexOpts(k - 1)
         \cup {[o EXCEPT ![x[1]] = x[2]] : o \in GetIndexOpts(k - 1), x \in GesvOptions}

GesvOpts == GetIndexOpts(MaxOpts)

\* Scalar arguments: absent, real, complex, and a NaN of either kind.
Alphas ==
    {NilScalar, RealScalar(Float(3)), RealScalar(NaN),
     ComplexScalar(Complex(3, 1)), ComplexScalar(NaN)}

Betas ==
    {NilScalar, RealScalar(Float(2)), RealScalar(NaN),
     ComplexScalar(Complex(2, 1)), ComplexScalar(NaN)}

\* Mode flags: all at their defaults, or transposed and applied from the right.
BlasParams ==
    {DefaultParams, [TransA |-> "T", TransB |-> "T", Trans |-> "T", Side |-> "R"]}

\* Option lists of the level 3 calls: none, or one option.
BlasOpts ==
    {DefaultIndexOpts,
     [DefaultIndexOpts EXCEPT !.M = 0], [DefaultIndexOpts EXCEPT !.N = 0],
     [DefaultIndexOpts EXCEPT !.K = 0], [DefaultIndexOpts EXCEPT !.LDa = 1],
     [DefaultIndexOpts EXCEPT !.OffsetA = -1], [DefaultIndexOpts EXCEPT !.OffsetC = 1]}

Dims == 0..MaxDim

Fresh == [x \in Buffers |-> FALSE]

\* Operands of Gesv: real and complex ones, and square operands of a
\* matrix.Matrix implementation that is neither (no case of the type switch).
GesvOperands == Operands \cup {Operand(d, d, 0, "other") : d \in 1..MaxDim}

----------------------------------------------------------------------------
(* The state machine.                                                      *)

Init ==
    /\ pc = "idle"
    /\ fn = "none"
    /\ A = NoOperand /\ B = NoOperand /\ C = NoOperand
    /\ alpha = NilScalar /\ beta = NilScalar
    /\ ipiv = NoIpiv
    /\ opts = DefaultIndexOpts
    /\ params = DefaultParams
    /\ ind = DefaultIndexOpts
    /\ kcall = NoCall
    /\ info = 0
    /\ err = "nil"
    /\ mem = Fresh

\* A call enters wrapper f with the given arguments and runs until the
\* wrapper returns or enters the kernel; r is the wrapper's outcome.
Enter(f, a, b, c, al, be, pv, o, p, r) ==
    /\ fn' = f
    /\ A' = a /\ B' = b /\ C' = c
    /\ alpha' = al /\ beta' = be
    /\ ipiv' = pv /\ opts' = o /\ params' = p
    /\ ind' = r.ind /\ kcall' = r.kcall /\ info' = r.info /\ err' = r.err
    /\ pc' = IF r.kcall.name = "none" THEN "done" ELSE "kernel"
    /\ UNCHANGED mem

CallGesv ==
    /\ pc = "idle"
    /\ \E a \in GesvOperands, b \in GesvOperands, pv \in IpivArgs, o \in GesvOpts :
           Enter("Gesv", a, b, NoOperand, NilScalar, NilScalar, pv, o, DefaultParams,
                 Gesv(a, b, pv, o))

CallGemm ==
    /\ pc = "idle"
    /\ \E m \in Dims, n \in Dims, k \in Dims, ta \in Types, tb \in Types, tc \in Types,
          al \in Alphas, be \in Betas, o \in BlasOpts, p \in BlasParams :
           LET a == Operand(m, k, 0, ta)
               b == Operand(k, n, 0, tb)
               c == Operand(m, n, 0, tc)
           IN  Enter("Gemm", a, b, c, al, be, NoIpiv, o, p, Gemm(a, b, c, al, be, o, p))

CallSymm ==
    /\ pc = "idle"
    /\ \E m \in Dims, n \in Dims, ta \in Types, tb \in Types, tc \in Types,
          al \in Alphas, be \in Betas, o \in BlasOpts, p \in BlasParams :
           LET a == Operand(m, m, 0, ta)
               b == Operand(m, n, 0, tb)
               c == Operand(m, n, 0, tc)
           IN  Enter("Symm", a, b, c, al, be, NoIpiv, o, p, Symm(a, b, c, al, be, o, p))

CallHemm ==
    /\ pc = "idle"
    /\ \E m \in Dims, n \in Dims, ta \in Types, tb \in Types, tc \in Types,
          al \in Alphas, be \in Betas, o \in BlasOpts, p \in BlasParams :
           LET a == Operand(m, m, 0, ta)
               b == Operand(m, n, 0, tb)
               c == Operand(m, n, 0, tc)
           IN  Enter("Hemm", a, b, c, al, be, NoIpiv, o, p, Hemm(a, b, c, al, be, o, p))

CallSyrk ==
    /\ pc = "idle"
    /\ \E n \in Dims, k \in Dims, ta \in Types, tc \in Types,
          al \in Alphas, be \in Betas, o \in BlasOpts, p \in BlasParams :
           LET a == Operand(n, k, 0, ta)
               c == Operand(n, n, 0, tc)
           IN  Enter("Syrk", a, NoOperand, c, al, be, NoIpiv, o, p, Syrk(a, c, al, be, o, p))

CallHerk ==
    /\ pc = "idle"
    /\ \E n \in Dims, k \in Dims, ta \in Types, tc \in Types,
          al \in Alphas, be \in Betas, o \in BlasOpts, p \in BlasParams :
           LET a == Operand(n, k, 0, ta)
               c == Operand(n, n, 0, tc)
           IN  Enter("Herk", a, NoOperand, c, al, be, NoIpiv, o, p, Herk(a, c, al, be, o, p))

CallSyr2k ==
    /\ pc = "idle"
    /\ \E n \in Dims, k \in Dims, ta \in Types, tb \in Types, tc \in Types,
          al \in Alphas, be \in Betas, o \in BlasOpts, p \in BlasParams :
           LET a == Operand(n, k, 0, ta)
               b == Operand(n, k, 0, tb)
               c == Operand(n, n, 0, tc)
           IN  Enter("Syr2k", a, b, c, al, be, NoIpiv, o, p, Syr2k(a, b, c, al, be, o, p))

CallHer2k ==
    /\ pc = "idle"
    /\ \E n \in Dims, k \in Dims, ta \in Types, tb \in Types, tc \in Types,
          al \in Alphas, be \in Betas, o \in BlasOpts, p \in BlasParams :
           LET a == Operand(n, k, 0, ta)
               b == Operand(n, k, 0, tb)
               c == Operand(n, n, 0, tc)
           IN  Enter("Her2k", a, b, c, al, be, NoIpiv, o, p, Her2k(a, b, c, al, be, o, p))

CallTrmm ==
    /\ pc = "idle"
    /\ \E m \in Dims, n \in Dims, ta \in Types, tb \in Types,
          al \in Alphas, o \in BlasOpts, p \in BlasParams :
           LET a == Operand(m, m, 0, ta)
               b == Operand(m, n, 0, tb)
           IN  Enter("Trmm", a, b, NoOperand, al, NilScalar, NoIpiv, o, p, Trmm(a, b, al, o, p))

CallTrsm ==
    /\ pc = "idle"
    /\ \E m \in Dims, n \in Dims, ta \in Types, tb \in Types,
          al \in Alphas, o \in BlasOpts, p \in BlasParams :
           LET a == Operand(m, m, 0, ta)
               b == Operand(m, n, 0, tb)
           IN  Enter("Trsm", a, b, NoOperand, al, NilScalar, NoIpiv, o, p, Trsm(a, b, al, o, p))

\* dgesv/zgesv return: status 0 with the factors, pivots and solution
\* written; a positive status (singular U) with factors and pivots written;
\* a negative status (illegal argument) with nothing written.  Gesv then
\* maps the status to its result.
KernelGesv ==
    /\ pc = "kernel"
    /\ kcall.name \in {"dgesv", "zgesv"}
    /\ \E st \in -1..1 :
         /\ info' = st
         /\ mem' = [x \in Buffers |->
                      \/ mem[x]
                      \/ st >= 0 /\ x \in {kcall.a, kcall.ipiv}
                      \/ st = 0 /\ x = kcall.b]
         /\ err' = IF st # 0 THEN LapackError(st) ELSE "nil"
    /\ pc' = "done"
    /\ UNCHANGED <<fn, A, B, C, alpha, beta, ipiv, opts, params, ind, kcall>>

RankKernels == {"dsyrk", "zsyrk", "zherk", "dsyr2k", "zsyr2k", "zher2k"}

\* A level 3 kernel returns: it has overwritten its output operand unless
\* the output is empty; the wrapper then returns nil.
KernelBlas ==
    /\ pc = "kernel"
    /\ kcall.name \notin {"dgesv", "zgesv"}
    /\ mem' = [mem EXCEPT ![kcall.out] =
                 IF kcall.name \in RankKernels THEN kcall.N > 0
                 ELSE kcall.M > 0 /\ kcall.N > 0]
    /\ err' = "nil"
    /\ pc' = "done"
    /\ UNCHANGED <<fn, A, B, C, alpha, beta, ipiv, opts, params, ind, kcall, info>>

Next ==
    \/ CallGesv
    \/ CallGemm
    \/ CallSymm
    \/ CallHemm
    \/ CallSyrk
    \/ CallHerk
    \/ CallSyr2k
    \/ CallHer2k
    \/ CallTrmm
    \/ CallTrsm
    \/ KernelGesv
    \/ KernelBlas

Spec == Init /\ [][Next]_vars

----------------------------------------------------------------------------
(* Vocabulary of the properties.                                           *)

KernelInvoked == kcall.name # "none"

CallerUnchanged == \A x \in CallerBuffers : ~mem[x]

BlasFns == {"Gemm", "Symm", "Hemm", "Syrk", "Herk", "Syr2k", "Her2k", "Trmm", "Trsm"}

\* One matrix operand of the call is real and another is complex.
Mixed == {"real", "complex"} \subseteq {A.typ, B.typ, C.typ}

AllComplex == {A.typ, B.typ, C.typ} \ {"none"} = {"complex"}

TypeError ==
    IF fn = "Gesv" THEN "Gesv: arguments not of same type" ELSE "Parameters not of same type"

GesvCheckErrors ==
    {"Gesv: A not square", "Gesv: ldA", "Gesv: ldB", "Gesv: offsetA", "Gesv: offsetB",
     "Gesv: sizeA", "Gesv: sizeB", "Gesv: size ipiv", "Gesv: arguments not of same type"}

L3CheckErrors ==
    {"dimensions do not match", "inconsistent ldA", "inconsistent ldB", "inconsistent ldC",
     "offsetA illegal", "offsetB illegal", "offsetC illegal", "sizeA", "sizeB", "sizeC"}

ScalarErrors ==
    {"alpha or beta not a number", "alpha not a number", "beta not a number",
     "alpha  not a number", "alpha not a real or complex number",
     "beta not a real or complex number", "beta not a real number"}

\* Kernels that take a beta.
HasBeta(name) ==
    name \in {"dgemm", "zgemm", "dsymm", "zhemm"} \cup RankKernels

FiniteComplex(s) == s.kind = "complex" /\ ~s.val.nan

SuppliedNaN(s) == s.kind # "nil" /\ s.val.nan

\* The validator's family of an entry point.
L3Of(f) ==
    CASE f = "Gemm" -> "fgemm"
      [] f \in {"Symm", "Hemm"} -> "fsymm"
      [] f \in {"Syrk", "Herk"} -> "fsyrk"
      [] f \in {"Syr2k", "Her2k"} -> "fsyr2k"
      [] f = "Trmm" -> "ftrmm"
      [] OTHER -> "ftrsm"

\* The level 3 call at hand has a valid, non-empty configuration of
\* operands of one type, whose slices are in range.
L3Valid ==
    /\ fn \in BlasFns
    /\ check_level3_func(opts, L3Of(fn), A, B, C, params).err = "nil"
    /\ ~L3Empty(ind, L3Of(fn))
    /\ ~Mixed
    /\ SliceOk(A, ind.OffsetA)
    /\ B # NoOperand => SliceOk(B, ind.OffsetB)
    /\ C # NoOperand => SliceOk(C, ind.OffsetC)

\* The Gesv call at hand, resolved from its arguments as the option
\* descriptions of gesv.go:35-40 say.
AtLeast1(x) == IF x > 1 THEN x ELSE 1

ResN == IF opts.N < 0 THEN A.rows ELSE opts.N

ResNrhs == IF opts.Nrhs < 0 THEN B.cols ELSE opts.Nrhs

ResLDa == IF opts.LDa = 0 THEN AtLeast1(A.ld) ELSE opts.LDa

ResLDb == IF opts.LDb = 0 THEN AtLeast1(B.ld) ELSE opts.LDb

\* The stride of the size checks: the explicit one, else the row count.
SizeRowsA == IF opts.LDa = 0 THEN AtLeast1(A.rows) ELSE opts.LDa

SizeRowsB == IF opts.LDb = 0 THEN AtLeast1(B.rows) ELSE opts.LDb

NotSquare == opts.N < 0 /\ A.rows # A.cols

\* The checks of Gesv, each as a predicate of the arguments.
BadLdA == ResLDa < AtLeast1(ResN)

BadLdB == ResLDb < AtLeast1(ResN)

BadOffsetA == opts.OffsetA < 0

BadOffsetB == opts.OffsetB < 0

BadSizeA == A.rows * A.cols < opts.OffsetA + (ResN - 1) * SizeRowsA + ResN

BadSizeB == B.rows * B.cols < opts.OffsetB + (ResNrhs - 1) * SizeRowsB + ResN

BadIpiv == ~ipiv.nil /\ ipiv.len < ResN

BadTypes == A.typ # B.typ

\* The error of the earliest violated check in the claimed order.
FirstViolation ==
    IF NotSquare THEN "Gesv: A not square"
    ELSE IF BadLdA THEN "Gesv: ldA"
    ELSE IF BadLdB THEN "Gesv: ldB"
    ELSE IF BadOffsetA THEN "Gesv: offsetA"
    ELSE IF BadOffsetB THEN "Gesv: offsetB"
    ELSE IF BadSizeA THEN "Gesv: sizeA"
    ELSE IF BadSizeB THEN "Gesv: sizeB"
    ELSE IF BadIpiv THEN "Gesv: size ipiv"
    ELSE IF BadTypes THEN "Gesv: arguments not of same type"
    ELSE "none"

\* Gesv's return for an empty system, taken right after the squareness check.
EmptySystem == ~NotSquare /\ (ResN = 0 \/ ResNrhs = 0)

----------------------------------------------------------------------------
(* Properties.                                                             *)

\* C1: a Gesv call without a permutation buffer never changes the caller's
\* A, whatever its outcome: the kernel is handed only the storage of a
\* private copy of A and privately allocated pivots.
C1_NoIpivLeavesA ==
    fn = "Gesv" /\ ipiv.nil =>
        /\ ~mem["A"]
        /\ ~mem["ipiv"]
        /\ KernelInvoked => kcall.a = "Acopy" /\ kcall.ipiv = "ipivPriv"

\* The kernel solved the system on the private copy: B holds the solution,
\* the copy holds the factors, A is as it was.
C1_Witness ==
    /\ fn = "Gesv" /\ ipiv.nil /\ pc = "done" /\ info = 0 /\ err = "nil"
    /\ mem["B"] /\ mem["Acopy"] /\ ~mem["A"]

\* C2 (as claimed): with resolved m = 0 or n = 0 in Gemm, Symm, Hemm, Trmm,
\* or n = 0 or nrhs = 0 in Gesv, no kernel entry point is invoked and the
\* caller's operands are unchanged.
C2_EmptyCallIsNoOp ==
    /\ fn \in {"Gemm", "Symm", "Hemm", "Trmm"} /\ (ind.M = 0 \/ ind.N = 0)
           => ~KernelInvoked /\ CallerUnchanged
    /\ fn = "Gesv" /\ (ind.N = 0 \/ ind.Nrhs = 0)
           => ~KernelInvoked /\ CallerUnchanged

\* C3 (as claimed): every call with one real and one complex operand
\* returns the type error and invokes no kernel.
C3_MixedAlwaysTypeError ==
    fn # "none" /\ Mixed /\ pc = "done" => err = TypeError /\ ~KernelInvoked

\* C3 (amended): a call with one real and one complex operand never invokes
\* a kernel.  It returns the type error unless an earlier check of the
\* resolver or validator rejects it, or it is the empty call that Gesv,
\* Gemm, Symm and Hemm answer with nil before they compare the types.
C3_MixedNeverReachesKernel ==
    fn # "none" /\ Mixed =>
        /\ ~KernelInvoked
        /\ pc = "done"
        /\ \/ err = TypeError
           \/ err = "nil"
           \/ err \in GesvCheckErrors
           \/ err \in L3CheckErrors
        /\ err = "nil" =>
              \/ fn = "Gesv" /\ (ind.N = 0 \/ ind.Nrhs = 0)
              \/ fn \in {"Gemm", "Symm", "Hemm"} /\ (ind.M = 0 \/ ind.N = 0)
        /\ fn = "Gesv" /\ FirstViolation = TypeError /\ ~EmptySystem => err = TypeError
        /\ fn \in BlasFns /\ ~L3Empty(ind, L3Of(fn))
              /\ check_level3_func(opts, L3Of(fn), A, B, C, params).err = "nil"
              => err = TypeError

\* A non-empty Gesv call on a real A and a complex B is refused.
C3_Witness ==
    /\ fn = "Gesv" /\ A.typ = "real" /\ B.typ = "complex"
    /\ ind.N > 0 /\ ind.Nrhs > 0
    /\ err = "Gesv: arguments not of same type" /\ ~KernelInvoked

\* C4 (as claimed): an absent alpha reaches the kernel as 1 and an absent
\* beta as 0, and an absent scalar causes neither an error nor a crash.
C4_AbsentScalarDefaults ==
    fn \in BlasFns =>
        /\ alpha.kind = "nil" /\ KernelInvoked => kcall.alpha = Float(1)
        /\ beta.kind = "nil" /\ KernelInvoked /\ HasBeta(kcall.name) => kcall.beta = Float(0)
        /\ alpha.kind = "nil" => err # PanicNil
        /\ alpha.kind = "nil" /\ beta.kind = "nil" => err \notin ScalarErrors

\* C5 (as claimed): no kernel invocation receives a NaN alpha or beta, and a
\* call given a NaN scalar does not reach the kernel.
C5_NoNaNReachesKernel ==
    fn \in BlasFns =>
        /\ KernelInvoked => ~IsNaN(kcall.alpha)
        /\ KernelInvoked /\ HasBeta(kcall.name) => ~IsNaN(kcall.beta)
        /\ SuppliedNaN(alpha) \/ SuppliedNaN(beta) => ~KernelInvoked

\* C6 (as claimed): on complex operands in a valid configuration, Gemm,
\* Symm, Syrk, Syr2k, Trmm and Trsm accept an explicit finite complex alpha
\* or beta and hand exactly that value to the complex kernel.
C6_ComplexScalarAccepted ==
    /\ fn \in {"Gemm", "Symm", "Syrk", "Syr2k", "Trmm", "Trsm"}
    /\ pc = "done" /\ L3Valid /\ AllComplex
    /\ FiniteComplex(alpha) \/ FiniteComplex(beta)
    /\ alpha.kind = "nil" \/ FiniteComplex(alpha)
    /\ beta.kind = "nil" \/ FiniteComplex(beta)
    => /\ err = "nil"
       /\ KernelInvoked
       /\ FiniteComplex(alpha) => kcall.alpha = alpha.val
       /\ FiniteComplex(beta) => kcall.beta = beta.val

\* C7 (as claimed): for a Gesv call with n > 0 and nrhs > 0 that passed the
\* stride and offset checks, A is refused with the size error exactly when
\* its element count is below offsetA + (n-1)*ldA + n for the resolved ldA,
\* and then B exactly when its count is below offsetB + (nrhs-1)*ldB + n.
C7_SizeCheckUsesResolvedStride ==
    /\ fn = "Gesv" /\ ind.N > 0 /\ ind.Nrhs > 0
    /\ err \notin {"Gesv: A not square", "Gesv: ldA", "Gesv: ldB",
                   "Gesv: offsetA", "Gesv: offsetB"}
    => /\ err = "Gesv: sizeA"
            <=> NumElements(A) < ind.OffsetA + (ind.N - 1) * ind.LDa + ind.N
       /\ err # "Gesv: sizeA" =>
            (err = "Gesv: sizeB"
                <=> NumElements(B) < ind.OffsetB + (ind.Nrhs - 1) * ind.LDb + ind.N)

C9_NegativeOffsetAlwaysError ==
    fn = "Gesv" /\ (opts.OffsetA < 0 \/ opts.OffsetB < 0) =>
        /\ ~KernelInvoked
        /\ pc = "done" /\ err # "nil"

\* C9 (amended): a Gesv call with a negative offsetA or offsetB never
\* invokes the kernel.  It is refused with an error, except that the empty
\* system (n = 0 or nrhs = 0, A square when n is defaulted) returns nil.
C9_NegativeOffsetNoKernel ==
    fn = "Gesv" /\ (opts.OffsetA < 0 \/ opts.OffsetB < 0) =>
        /\ ~KernelInvoked
        /\ pc = "done"
        /\ IF EmptySystem THEN err = "nil"
           ELSE err \in {"Gesv: A not square", "Gesv: ldA", "Gesv: ldB",
                         "Gesv: offsetA", "Gesv: offsetB"}

\* A non-empty system with offsetA = -1 is refused for its offset.
C9_Witness ==
    /\ fn = "Gesv" /\ opts.OffsetA < 0 /\ ~EmptySystem
    /\ err = "Gesv: offsetA" /\ ~KernelInvoked

C11_ShortIpivAlwaysSizeError ==
    fn = "Gesv" /\ ~NotSquare /\ BadIpiv =>
        /\ ~KernelInvoked
        /\ err \in {"Gesv: sizeA", "Gesv: sizeB", "Gesv: size ipiv"}

\* C11 (amended): a supplied permutation buffer shorter than the resolved n
\* is never handed to the kernel: the call is rejected with the permutation
\* size error, unless an earlier check rejects it first or the system is
\* empty (nrhs = 0), which returns nil.  Whenever the kernel is invoked the
\* pivot buffer it receives, supplied or allocated, has length >= n.
C11_ShortIpivNoKernel ==
    fn = "Gesv" =>
        /\ KernelInvoked => kcall.ipivlen >= kcall.N
        /\ KernelInvoked /\ ipiv.nil => kcall.ipivlen = kcall.N
        /\ BadIpiv =>
              /\ ~KernelInvoked
              /\ pc = "done"
              /\ IF EmptySystem THEN err = "nil"
                 ELSE IF FirstViolation = "Gesv: size ipiv" THEN err = "Gesv: size ipiv"
                 ELSE err \in GesvCheckErrors \ {"Gesv: arguments not of same type"}

\* A buffer of length n - 1 for an otherwise valid system is refused.
C11_Witness ==
    /\ fn = "Gesv" /\ ~ipiv.nil /\ ResN > 0 /\ ipiv.len = ResN - 1
    /\ err = "Gesv: size ipiv" /\ ~KernelInvoked /\ pc = "done"

\* What is known of a Gesv call once it has left the wrapper or the kernel:
\* after the kernel, nil exactly for status 0 and otherwise the error that
\* carries the status; for valid operands that are neither real nor complex,
\* no kernel call and an error.
GesvStatusMapped ==
    fn = "Gesv" =>
        /\ KernelInvoked /\ pc = "kernel" => err = "pending"
        /\ KernelInvoked /\ pc = "done" =>
              /\ err = "nil" <=> info = 0
              /\ info # 0 => err = "Gesv: lapack error: " \o ToString(info)
        /\ A.typ = "other" /\ FirstViolation = "none" /\ ~EmptySystem =>
              /\ ~KernelInvoked
              /\ pc = "done"
              /\ err \notin {"nil", "pending"}

\* C12: a Gesv call that reaches the kernel returns nil if and only if the
\* kernel's status is 0, and a nonzero status comes back as the error
\* carrying that status; the kernel call made is never replaced by another
\* one and the call ends when the kernel returns.  Valid operands of a type
\* that is neither real nor complex get no kernel call and an error.
C12_KernelStatusIsResult ==
    /\ []GesvStatusMapped
    /\ [][fn = "Gesv" /\ KernelInvoked => kcall' = kcall /\ pc = "kernel" /\ pc' = "done"]_vars

\* The kernel reported a singular system: Gesv returns the error with status 1.
C12_Witness ==
    /\ fn = "Gesv" /\ pc = "done" /\ KernelInvoked
    /\ info = 1 /\ err = "Gesv: lapack error: 1"

\* C13 (as claimed): Gemm with resolved m > 0, n > 0, k = 0, a valid
\* configuration and an explicit beta = 2, on real and on complex operands
\* alike, returns no error and calls the kernel with k = 0 and beta = 2; the
\* rank updates Syrk, Herk, Syr2k, Her2k likewise reach their kernel with
\* k = 0 and beta = 2.
C13_EmptyInnerDimensionScales ==
    /\ fn \in {"Gemm", "Syrk", "Herk", "Syr2k", "Her2k"}
    /\ L3Valid /\ ind.K = 0
    /\ beta = RealScalar(Float(2))
    /\ alpha.kind = "nil"
    => /\ err \in {"pending", "nil"}
       /\ KernelInvoked
       /\ kcall.K = 0
       /\ kcall.beta = Float(2)
       /\ kcall.alpha = Float(1)

\* The defaults of a Gesv call made explicit: n = rows(A), nrhs = cols(B),
\* ldA and ldB the operands' leading indices (at least 1), offsets 0.
ExplicitDefaults ==
    [DefaultIndexOpts EXCEPT !.N = Rows(A), !.Nrhs = Cols(B),
                             !.LDa = AtLeast1(LeadingIndex(A)),
                             !.LDb = AtLeast1(LeadingIndex(B))]

\* Two outcomes of Gesv's wrapper agree: the same error, or kernel calls
\* with the same (n, nrhs, ldA, ldB) on storage from the same offsets.
SameOutcome(x, y) ==
    /\ x.err = y.err
    /\ x.kcall.name = y.kcall.name
    /\ x.kcall.name # "none" =>
          /\ x.kcall.N = y.kcall.N /\ x.kcall.Nrhs = y.kcall.Nrhs
          /\ x.kcall.LDa = y.kcall.LDa /\ x.kcall.LDb = y.kcall.LDb
          /\ x.ind.OffsetA = y.ind.OffsetA /\ x.ind.OffsetB = y.ind.OffsetB

\* C14 (as claimed): for all operands A, B, a Gesv call with every option
\* unset and the call with the defaults made explicit have the same outcome.
C14_DefaultsEqualExplicit ==
    fn = "Gesv" /\ opts = DefaultIndexOpts =>
        SameOutcome(Gesv(A, B, ipiv, opts), Gesv(A, B, ipiv, ExplicitDefaults))

\* The errors the wrappers and their validator raise themselves.
LayerErrors ==
    GesvCheckErrors \cup L3CheckErrors \cup ScalarErrors
        \cup {"Parameters not of same type", "Unknown type, not implemented"}

\* C15: an error raised by the layer itself (shape, stride, offset, size,
\* domain or scalar error), in Gesv and in the level 3 families, is returned
\* before any kernel invocation and with the caller's A, B, C and ipiv
\* unwritten; the caller's storage is written only by a kernel that has been
\* invoked and has returned.
C15_LayerErrorsPrecedeKernel ==
    /\ err \in LayerErrors =>
          /\ ~KernelInvoked
          /\ pc = "done"
          /\ CallerUnchanged
    /\ ~CallerUnchanged => KernelInvoked /\ pc = "done"

\* Gemm on real operands refuses a NaN scalar and has written nothing.
C15_Witness ==
    /\ fn = "Gemm" /\ A.typ = "real" /\ SuppliedNaN(alpha)
    /\ ind.M > 0 /\ ind.N > 0
    /\ err = "alpha or beta not a number"
    /\ pc = "done" /\ ~KernelInvoked /\ CallerUnchanged

\* C16 (as claimed): a Gesv call that passes all its validation checks
\* takes only in-range slices of the operands' arrays before the kernel is
\* invoked: it never ends in a slice-bounds panic, and the ldA*ldB elements
\* of A it hands to the kernel from offsetA on lie within A's array.
C16_ValidatedSlicesInRange ==
    fn = "Gesv" /\ FirstViolation = "none" /\ ~EmptySystem /\ A.typ \in Types =>
        /\ err # PanicSlice
        /\ KernelInvoked
        /\ ind.OffsetA + kcall.alen <= ArrayLen(A)

\* A finite real-valued singleton.
FiniteReal(x) == x.kind = "real" /\ ~x.val.nan

\* C17 (as claimed): on the complex path of Gemm, Symm, Syrk and Syr2k,
\* explicit finite real-valued alpha = a and beta = b reach the kernel as
\* alpha = (a, 0) and beta = (b, 0), each depending on its own argument only.
C17_RealScalarsOnComplexPath ==
    /\ fn \in {"Gemm", "Symm", "Syrk", "Syr2k"}
    /\ L3Valid /\ AllComplex
    /\ FiniteReal(alpha) /\ FiniteReal(beta)
    => /\ err \in {"pending", "nil"}
       /\ KernelInvoked
       /\ kcall.alpha = complex(alpha.val)
       /\ kcall.beta = complex(beta.val)

====
